---- MODULE Spec2Model ----
(***************************************************************************)
(* The incremental blog crawler of tools/fetch_blogs_from_db.py: one       *)
(* process that, per run, lists the enabled Blog sources and crawls each   *)
(* in turn (crawl_blog), walking back through "previous post" links and    *)
(* upserting every visited post into BlogPost.                             *)
(*                                                                         *)
(* The web site, the clock and the database's availability are the         *)
(* environment.  The site only changes between runs (SiteEdit), the clock  *)
(* is read by NOW() and advances between runs and between the end of a     *)
(* walk and the bookkeeping that follows it (Tick).  A database statement  *)
(* together with its commit either takes effect or raises with no effect;  *)
(* clock ticks, site changes and database failures are counted in events.  *)
(*                                                                         *)
(* Spec is the crawler run with lower-case host options and the default    *)
(* sleep, never interrupted; FairSpec adds that the process keeps running. *)
(* FullSpec takes every command line, the operator's Ctrl-C during a walk  *)
(* (counted in events as well) and runs of render_assets_for_updates       *)
(* between runs of the crawler.  UnitSpec calls helper functions alone.    *)
(***************************************************************************)
EXTENDS Integers, Sequences, FiniteSets, TLC

\* ----------------------------------------------------------------- bounds

NumPosts == 3        \* posts of the archive of the first blog
TicksPerDay == 1     \* DATE(t) = t \div TicksPerDay
MaxRuns == 2         \* runs of main() in one behaviour
MaxEvents == 1          \* clock ticks, site changes and failing database statements in one behaviour
MaxResponses == 4       \* answers of a server to one http_get that are told apart

\* ------------------------------------------------------- program constants

MAX_RETRIES == 3
BACKOFF_SLEEP == 5
DEFAULT_SLEEP_BETWEEN == 1      \* in units of half a second
RetryEvery4xx == {429, 500, 502, 503, 504} \cup (400..499)

RetryStatuses == {429, 500, 502, 503, 504}

\* ------------------------------------------------------------------ values

None == "None"       \* Python None / SQL NULL in a string column
NoUrl == << >>       \* None where a URL is expected
NULL == -1           \* SQL NULL in a DATETIME / DATE column
NetErr == 0          \* session.get raised (timeout, connection reset)

HostA == "a.blog.gov.uk"
HostB == "b.blog.gov.uk"
Hosts == {HostA, HostB}

\* A post URL https://<host>/<n-th post>/ ; post 1 is the newest.
PostCount(h) == IF h = HostA THEN NumPosts ELSE 1
URLs == {<<h, n>> : h \in Hosts, n \in 1..NumPosts} \ {<<HostB, n>> : n \in 2..NumPosts}
UrlsOf(h) == {u \in URLs : u[1] = h}

\* The feed of a blog, https://<host>/feed/ ; it is no post.
FeedUrl(h) == <<h, 0>>

\* A page that navigation markup may link to and that is neither a post nor on
\* a blog's host, https://www.gov.uk/ .
NavUrl == <<"www.gov.uk", 0>>
Pages == URLs \cup {NavUrl}

TitleOf(u) == "title"
DateOf(u) == 1 + PostCount(u[1]) - u[2]     \* an older post has an earlier date

Statuses == {200, 404, 503}

\* The Source table's static columns.
SourceIds == {1, 2, 3}
SourceName(sid) == IF sid = 1 THEN "A blog" ELSE IF sid = 2 THEN "B blog" ELSE "A channel"
SourceHost(sid) == IF sid = 1 THEN HostA ELSE IF sid = 2 THEN HostB ELSE "www.youtube.com"
SourceKind(sid) == IF sid = 3 THEN "YouTube" ELSE "Blog"
SourceEnabled(sid) == TRUE

VARIABLES
    now,          \* the clock
    page,         \* the site: per post URL [status, title, published_at, prev, next]
    home,         \* the site: per host the homepage [status, link]
    feed,         \* the site: per host the feed [status, link]
    api,          \* the site: per host the WP JSON endpoint [status, link]
    events,       \* clock ticks, site changes and database failures so far
    BlogPost,     \* table BlogPost: a set of rows
    Source,       \* table Source: per id the mutable columns
    runs,         \* runs of main() started so far
    pc,           \* "idle" | "main_loop" | "walk" | "finish" | "except" | "interrupted"
    args,         \* the parsed command line of the current run
    rows,         \* main: the ids list_sources returned
    idx,          \* main: position of the for loop in rows
    cur,          \* crawl_blog: source_id
    start_url,    \* crawl_blog: start_url
    this_url,     \* crawl_blog: this_url
    visited,      \* crawl_blog: visited
    seen,         \* crawl_blog: seen
    exc,          \* the exception being handled, None when there is none
    result,       \* what crawl_blog returned last: [new_count, err]
    stop,         \* which exit of the while loop the walk took
    fetchLog,     \* history: the post URLs http_get was called on in this crawl
    upserted,     \* history: the rows this crawl wrote
    preDB,        \* history: BlogPost when this crawl began
    preSrc,       \* history: Source when this crawl began
    attempted,    \* history: the crawl attempts of this run, in order
    lastCrawl,    \* history: the previous crawl's end state, while the site is unchanged
    call,         \* one call of a helper function on its own: [fn, arg, ret, done]
    unforced,     \* history: per source, today's crawl attempts in runs without --force
                  \* and --only-host, each with whether its status was recorded
    ioLog,        \* history: the requests ("fetch") and the time.sleep calls ("sleep")
                  \* of this crawl, in order
    rendered      \* render_assets_for_updates: what its last run since the last crawler
                  \* run listed and selected

vars == <<now, page, home, feed, api, events, BlogPost, Source, runs, pc, args, rows,
          idx, cur, start_url, this_url, visited, seen, exc, result, stop,
          fetchLog, upserted, preDB, preSrc, attempted, lastCrawl, call, unforced,
          ioLog, rendered>>

siteVars == <<page, home, feed, api>>
walkVars == <<start_url, this_url, visited, seen, stop>>
histVars == <<fetchLog, upserted, preDB, preSrc, ioLog>>

\* ------------------------------------------------------------------- utils

\* str.lower() on the host spellings a command line can give.
Lower(s) == IF s = "A.blog.gov.uk" THEN HostA ELSE IF s = "B.blog.gov.uk" THEN HostB ELSE s

\* host_from_url: the part between "//" and the next "/", lower-cased.
host_from_url(url) == Lower(url[1])

\* What session.get answers on every attempt while a resource's status is st.
Responses(st) == [i \in 1..MAX_RETRIES |-> st]

\* http_get from attempt `attempt` on: a status in RetryStatuses sleeps and goes
\* round again; any other status returns or raises at once (raise_for_status);
\* a network error leaves the loop as the exception it is; after the last
\* attempt the last response is raised.
RECURSIVE http_get_from(_, _, _)
http_get_from(resps, attempt, sleeps) ==
    IF attempt > MAX_RETRIES
    THEN [ok |-> FALSE, status |-> resps[MAX_RETRIES], attempts |-> MAX_RETRIES,
          sleeps |-> sleeps]
    ELSE LET st == resps[attempt] IN
         IF st = NetErr
         THEN [ok |-> FALSE, status |-> NetErr, attempts |-> attempt, sleeps |-> sleeps]
         ELSE IF st \in RetryStatuses
         THEN http_get_from(resps, attempt + 1, Append(sleeps, BACKOFF_SLEEP))
         ELSE [ok |-> st < 400, status |-> st, attempts |-> attempt, sleeps |-> sleeps]

\* The requests and sleeps of one http_get that returned r: every attempt is a
\* request, every retried attempt is followed by a sleep.
IoOfGet(r) ==
    [i \in 1..(r.attempts + Len(r.sleeps)) |-> IF i % 2 = 1 THEN "fetch" ELSE "sleep"]

HttpGetFirstStatus(resps) == [http_get_from(resps, 1, << >>) EXCEPT !.status = resps[1]]

http_get(resps) == http_get_from(resps, 1, << >>)

\* latest_post_from_home: the homepage's first listing link; else the feed's
\* newest entry; else the WP JSON API's newest post; else None.  A failing
\* homepage fetch is not caught here, failing feed and API fetches are.
latest_post_from_home(h) ==
    LET hg == http_get(Responses(home[h].status))
        fg == http_get(Responses(feed[h].status))
        ag == http_get(Responses(api[h].status))
    IN IF ~hg.ok
       THEN [raised |-> TRUE, url |-> NoUrl, io |-> IoOfGet(hg)]
       ELSE IF home[h].link # NoUrl
       THEN [raised |-> FALSE, url |-> home[h].link, io |-> IoOfGet(hg)]
       ELSE IF fg.ok /\ feed[h].link # NoUrl
       THEN [raised |-> FALSE, url |-> feed[h].link, io |-> IoOfGet(hg) \o IoOfGet(fg)]
       ELSE IF ag.ok /\ api[h].link # NoUrl
       THEN [raised |-> FALSE, url |-> api[h].link,
             io |-> IoOfGet(hg) \o IoOfGet(fg) \o IoOfGet(ag)]
       ELSE [raised |-> FALSE, url |-> NoUrl,
             io |-> IoOfGet(hg) \o IoOfGet(fg) \o IoOfGet(ag)]

\* parse_date_str on the strings a page may carry: the ISO-like formats and
\* the leading YYYY-MM-DD parse, anything else and the empty string do not.
parse_date_str(s) ==
    IF s = "2022-05-03" THEN 20220503
    ELSE IF s = "2021-01-01T09:00:00" THEN 20210101
    ELSE IF s = "2020-02-02" THEN 20200202
    ELSE IF s = "2019-09-09T12:00:00Z" THEN 20190909
    ELSE NULL

\* The first string of strs that parses, as a date; NULL if none does.
RECURSIVE FirstParsed(_)
FirstParsed(strs) ==
    IF strs = << >> THEN NULL
    ELSE IF parse_date_str(Head(strs)) # NULL THEN parse_date_str(Head(strs))
    ELSE FirstParsed(Tail(strs))

\* soup.select_one("time[datetime]"): the datetime of the first <time>
\* element that has one.
RECURSIVE FirstTimeAttr(_)
FirstTimeAttr(times) ==
    IF times = << >> THEN ""
    ELSE IF Head(times).datetime # "" THEN Head(times).datetime
    ELSE FirstTimeAttr(Tail(times))

\* extract_published_at: DATE_META_SELECTORS in their order, then every
\* <time> element by its datetime attribute or else its text.
extract_published_at(doc) ==
    LET meta == FirstParsed(<<doc.og, doc.pubdate, FirstTimeAttr(doc.times)>>)
        texts == [i \in DOMAIN doc.times |->
                    IF doc.times[i].datetime # "" THEN doc.times[i].datetime
                    ELSE doc.times[i].text]
    IN IF meta # NULL THEN meta ELSE FirstParsed(texts)

\* ------------------------------------------------------------------ DB ops

DateOfTs(t) == t \div TicksPerDay      \* SQL DATE(t), CURDATE() = DateOfTs(now)

ListedWhateverTheDay(sid, only_host, force) ==
    /\ SourceKind(sid) = "Blog"
    /\ SourceEnabled(sid)
    /\ only_host # None => SourceHost(sid) = Lower(only_host)

\* The WHERE clause of list_sources.
Listed(sid, only_host, force) ==
    /\ SourceKind(sid) = "Blog"
    /\ SourceEnabled(sid)
    /\ only_host # None => SourceHost(sid) = Lower(only_host)
    /\ (~force /\ only_host = None) =>
          \/ Source[sid].last_checked = NULL
          \/ DateOfTs(Source[sid].last_checked) < DateOfTs(now)

\* The ids in S, ORDER BY id.
RECURSIVE OrderById(_)
OrderById(S) ==
    IF S = {} THEN << >>
    ELSE LET m == CHOOSE x \in S : \A y \in S : x <= y
         IN <<m>> \o OrderById(S \ {m})

list_sources(only_host, force) ==
    OrderById({sid \in SourceIds : Listed(sid, only_host, force)})

ExistsNever(db, url) == FALSE

\* SELECT 1 FROM BlogPost WHERE url=%s LIMIT 1
exists_post(db, url) == \E r \in db : r.url = url

\* INSERT ... ON DUPLICATE KEY UPDATE on the unique key url: a new row, or the
\* row of that url with title, published_at, previous_url, next_url and
\* updated_at overwritten by the new values (blog_name is left as it is).
UpsertInsertOnly(db, blog_name, url, title, published_at, prev_url, next_url, t) ==
    db \cup {[blog_name |-> blog_name, url |-> url, title |-> title,
              published_at |-> published_at, previous_url |-> prev_url,
              next_url |-> next_url, updated_at |-> t]}

upsert_post(db, blog_name, url, title, published_at, prev_url, next_url, t) ==
    IF \E r \in db : r.url = url
    THEN {IF r.url = url
          THEN [r EXCEPT !.title = title, !.published_at = published_at,
                         !.previous_url = prev_url, !.next_url = next_url,
                         !.updated_at = t]
          ELSE r : r \in db}
    ELSE db \cup {[blog_name |-> blog_name, url |-> url, title |-> title,
                   published_at |-> published_at, previous_url |-> prev_url,
                   next_url |-> next_url, updated_at |-> t]}

\* MIN / MAX over a set of dates, NULL over the empty set.
MinDate(S) == IF S = {} THEN NULL ELSE CHOOSE d \in S : \A e \in S : d <= e
MaxDate(S) == IF S = {} THEN NULL ELSE CHOOSE d \in S : \A e \in S : d >= e

PostsAtHostRoot(db, host) == {r \in db : r.url = <<host>>}

\* The rows that  url LIKE CONCAT('https://', host, '/%')  selects.
PostsOfHost(db, host) == {r \in db : r.url # NoUrl /\ r.url[1] = host}

\* The aggregate subquery of refresh_source_summary.
Aggregate(db, host) ==
    LET dates == {r.published_at : r \in {q \in PostsOfHost(db, host) : q.published_at # NULL}}
    IN [first_post_date |-> MinDate(dates), last_post_date |-> MaxDate(dates),
        total_posts |-> Cardinality(PostsOfHost(db, host))]

RefreshAccumulates(src, db, sid, home_host) ==
    LET b == Aggregate(db, home_host)
    IN [src EXCEPT ![sid].first_post_date = b.first_post_date,
                   ![sid].last_post_date = b.last_post_date,
                   ![sid].total_posts = src[sid].total_posts + b.total_posts]

refresh_source_summary(src, db, sid, home_host) ==
    LET b == Aggregate(db, home_host)
    IN [src EXCEPT ![sid].first_post_date = b.first_post_date,
                   ![sid].last_post_date = b.last_post_date,
                   ![sid].total_posts = b.total_posts]

MarkAlwaysSuccess(src, sid, success, status_code, t) ==
    [src EXCEPT ![sid].last_checked = t, ![sid].last_success = t,
                ![sid].status_code = status_code]

\* UPDATE Source SET last_checked = NOW(), <last_success | last_checked> = NOW(),
\* status_code = %s WHERE id = %s
mark_source_checked(src, sid, success, status_code, t) ==
    IF success
    THEN [src EXCEPT ![sid].last_checked = t, ![sid].last_success = t,
                     ![sid].status_code = status_code]
    ELSE [src EXCEPT ![sid].last_checked = t, ![sid].status_code = status_code]

Summary(src, sid) ==
    [first_post_date |-> src[sid].first_post_date,
     last_post_date |-> src[sid].last_post_date,
     total_posts |-> src[sid].total_posts]

\* A stored post without its timestamps.
PostFields(r) ==
    [url |-> r.url, blog_name |-> r.blog_name, title |-> r.title,
     published_at |-> r.published_at, previous_url |-> r.previous_url,
     next_url |-> r.next_url]
Posts(db) == {PostFields(r) : r \in db}
StoredUrls(db) == {r.url : r \in db}

\* ------------------------------------------------------------ initial state

\* An archive is a chain of posts, newest first; the oldest post's "previous"
\* link is absent, leads back into the archive (every walk along links that
\* each page has at most one of runs down a chain and, if the links are
\* corrupt, into a cycle), or is a navigation link that leaves the blog.
InitPage(tail) ==
    [u \in Pages |->
        IF u = NavUrl
        THEN [status |-> 200, title |-> TitleOf(u), published_at |-> NULL,
              prev |-> NoUrl, next |-> NoUrl]
        ELSE [status |-> 200, title |-> TitleOf(u), published_at |-> DateOf(u),
              prev |-> IF u[2] < PostCount(u[1]) THEN <<u[1], u[2] + 1>>
                       ELSE IF u[1] = HostA THEN tail ELSE NoUrl,
              next |-> IF u[2] > 1 THEN <<u[1], u[2] - 1>> ELSE NoUrl]]

NoSource == 0
NoArgs == [force |-> FALSE, only_host |-> None, start_url |-> NoUrl, max_posts_per_blog |-> 0,
           sleep |-> DEFAULT_SLEEP_BETWEEN]
NoSummary == [first_post_date |-> NULL, last_post_date |-> NULL, total_posts |-> 0]
NoCrawl == [sid |-> NoSource, start |-> NoUrl, ceiling |-> 0, ok |-> FALSE, posts |-> {},
            new |-> 0,
            summary |-> NoSummary, repeat |-> FALSE, prevOk |-> FALSE, prevPosts |-> {},
            prevSummary |-> NoSummary]

NoRender == [done |-> FALSE, catch_up_missing |-> FALSE, rows |-> {}, to_render |-> {}]

NoCall == [fn |-> "none", arg |-> << >>, ret |-> << >>, done |-> TRUE]

\* The sites as the crawler first meets them: homepages list the newest post,
\* there is no feed and no JSON API.
InitSiteWith(tail) ==
    /\ page = InitPage(tail)
    /\ home = [h \in Hosts |-> [status |-> 200, link |-> <<h, 1>>]]
    /\ feed = [h \in Hosts |-> [status |-> 404, link |-> NoUrl]]
    /\ api = [h \in Hosts |-> [status |-> 404, link |-> NoUrl]]

InitSite == \E tail \in {NoUrl, NavUrl} \cup UrlsOf(HostA) : InitSiteWith(tail)

\* Empty tables, no run started.
InitCrawler ==
    /\ now = 0
    /\ events = 0
    /\ BlogPost = {}
    /\ Source = [sid \in SourceIds |->
                    [last_checked |-> NULL, last_success |-> NULL, status_code |-> 0,
                     first_post_date |-> NULL, last_post_date |-> NULL, total_posts |-> 0]]
    /\ runs = 0
    /\ pc = "idle"
    /\ args = NoArgs
    /\ rows = << >>
    /\ idx = 1
    /\ cur = NoSource
    /\ start_url = NoUrl
    /\ this_url = NoUrl
    /\ visited = {}
    /\ seen = 0
    /\ exc = None
    /\ result = [new_count |-> 0, err |-> None]
    /\ stop = "none"
    /\ fetchLog = << >>
    /\ upserted = {}
    /\ preDB = {}
    /\ preSrc = Source
    /\ attempted = << >>
    /\ lastCrawl = NoCrawl
    /\ unforced = [sid \in SourceIds |-> << >>]
    /\ ioLog = << >>
    /\ rendered = NoRender

Init == InitSite /\ InitCrawler /\ call = NoCall

\* ------------------------------------------------------------ environment

\* Time passes (after the last run nothing reads the clock any more).
Tick ==
    /\ pc \in {"finish", "except"} \/ (pc = "idle" /\ runs < MaxRuns)
    /\ events < MaxEvents
    /\ events' = events + 1
    /\ now' = now + 1
    /\ UNCHANGED <<siteVars, BlogPost, Source, runs, pc, args, rows, idx, cur,
                   walkVars, exc, result, histVars, attempted, lastCrawl>>
    /\ unforced' = IF DateOfTs(now + 1) # DateOfTs(now)
                   THEN [sid \in SourceIds |-> << >>] ELSE unforced
    /\ UNCHANGED <<call, rendered>>

\* The site changes between two runs: a page or a homepage starts answering
\* with another status, a page loses the markup its title or its date is read
\* from, a homepage stops listing posts.
SiteEdit ==
    /\ pc = "idle"
    /\ runs \in 1..(MaxRuns - 1)
    /\ events < MaxEvents
    /\ events' = events + 1
    /\ lastCrawl' = NoCrawl
    /\ \/ \E u \in URLs, st \in Statuses :
            /\ st # page[u].status
            /\ page' = [page EXCEPT ![u].status = st]
            /\ UNCHANGED home
       \/ \E u \in URLs :
            /\ page[u].title # None
            /\ page' = [page EXCEPT ![u].title = None]
            /\ UNCHANGED home
       \/ \E u \in URLs :
            /\ page[u].published_at # NULL
            /\ page' = [page EXCEPT ![u].published_at = NULL]
            /\ UNCHANGED home
       \/ \E h \in Hosts, st \in Statuses :
            /\ st # home[h].status
            /\ home' = [home EXCEPT ![h].status = st]
            /\ UNCHANGED page
       \/ \E h \in Hosts :
            /\ home[h].link # NoUrl
            /\ home' = [home EXCEPT ![h].link = NoUrl]
            /\ UNCHANGED page
    /\ UNCHANGED <<now, feed, api, BlogPost, Source, runs, pc, args, rows, idx, cur,
                   walkVars, exc, result, histVars, attempted>>
    /\ UNCHANGED <<call, unforced, rendered>>

\* ------------------------------------------------------------------- main

Ceilings == 0..(NumPosts - 1)                 \* --max-posts-per-blog, 0 = unlimited
OnlyHosts == {None, HostA}                    \* --only-host
StartUrls == {NoUrl, <<HostA, 2>>}            \* --start-url
Sleeps == {0, DEFAULT_SLEEP_BETWEEN}          \* --sleep
HostSpellings == OnlyHosts \cup {"A.blog.gov.uk"}   \* --only-host as it may be typed

\* main up to the for loop: parse the command line, list the sources.
RunStartFrom(only_hosts, sleeps) ==
    /\ pc = "idle"
    /\ runs < MaxRuns
    /\ runs' = runs + 1
    /\ \E force \in BOOLEAN, only_host \in only_hosts, su \in StartUrls, k \in Ceilings,
          sl \in sleeps :
          /\ args' = [force |-> force, only_host |-> only_host, start_url |-> su,
                      max_posts_per_blog |-> k, sleep |-> sl]
          /\ rows' = list_sources(only_host, force)
    /\ idx' = 1
    /\ pc' = "main_loop"
    /\ attempted' = << >>
    /\ rendered' = NoRender
    /\ UNCHANGED <<now, siteVars, events, BlogPost, Source, cur, walkVars, exc, result,
                   histVars, lastCrawl>>
    /\ UNCHANGED <<call, unforced>>

\* A run whose host option is in lower case and whose sleep is the default.
RunStart == RunStartFrom(OnlyHosts, {DEFAULT_SLEEP_BETWEEN})

\* A run with any command line.
RunStartAny == RunStartFrom(HostSpellings, Sleeps)

\* main after the for loop: close the connection.
RunEnd ==
    /\ pc = "main_loop"
    /\ idx > Len(rows)
    /\ pc' = "idle"
    /\ cur' = NoSource
    /\ start_url' = NoUrl /\ this_url' = NoUrl /\ visited' = {} /\ seen' = 0
    /\ stop' = "none"
    /\ fetchLog' = << >> /\ upserted' = {} /\ preDB' = {} /\ preSrc' = Source
    /\ ioLog' = << >>
    /\ result' = [new_count |-> 0, err |-> None]
    /\ args' = NoArgs /\ rows' = << >> /\ idx' = 1 /\ attempted' = << >>
    /\ UNCHANGED <<now, siteVars, events, BlogPost, Source, runs, exc, lastCrawl>>
    /\ UNCHANGED <<call, unforced, rendered>>

\* ------------------------------------------------------------- crawl_blog

\* The database statements of `stmts` that may raise now, or "none" of them.
DbFail(stmts) == {"none"} \cup (IF events < MaxEvents THEN stmts ELSE {})

\* The same inside the except clause, where nothing follows a failure but the
\* return: the statement may raise whatever was raised before it.
DbFailAfter(e, stmts) == {"none"} \cup stmts

\* while this_url: if this_url in visited: break
LoopGuard(u, vis) == u # NoUrl /\ u \notin vis

CeilingOffByOne(n, k) == k # 0 /\ n > k

\* if args.max_posts_per_blog and seen >= args.max_posts_per_blog
CeilingReached(n, k) == k # 0 /\ n >= k

\* Which start URL crawl_blog decides on for the source with host `host`.
DecideStart(host) ==
    IF args.only_host # None /\ args.start_url # NoUrl /\ host = args.only_host
    THEN [raised |-> FALSE, url |-> args.start_url, io |-> << >>]
    ELSE IF args.start_url # NoUrl /\ args.only_host = None
    THEN [raised |-> FALSE, url |-> args.start_url, io |-> << >>]
    ELSE latest_post_from_home(host)

NoStartEndsWalk(e) ==
    /\ pc' = "finish" /\ exc' = None
    /\ start_url' = NoUrl /\ this_url' = NoUrl

\* No start URL: latest_post_from_home raised, or it returned None and
\* crawl_blog raises RuntimeError; control passes to the except clause.
NoStart(e) ==
    /\ pc' = "except" /\ exc' = e
    /\ start_url' = NoUrl /\ this_url' = NoUrl

\* crawl_blog from its entry to the while loop: the next row of main's for
\* loop, the start URL, the cursor.
CrawlStart ==
    /\ pc = "main_loop"
    /\ idx <= Len(rows)
    /\ LET sid == rows[idx]
           host == host_from_url(<<SourceHost(sid)>>)
           d == DecideStart(host)
       IN /\ cur' = sid
          /\ ioLog' = d.io
          /\ IF d.raised
             THEN NoStart("HTTPError")
             ELSE IF d.url = NoUrl
             THEN NoStart("RuntimeError")
             ELSE /\ pc' = "walk" /\ exc' = None
                  /\ start_url' = d.url /\ this_url' = d.url
    /\ visited' = {} /\ seen' = 0 /\ stop' = "none"
    /\ fetchLog' = << >> /\ upserted' = {} /\ preDB' = BlogPost /\ preSrc' = Source
    /\ UNCHANGED <<now, siteVars, events, BlogPost, Source, runs, args, rows, idx, result,
                   attempted, lastCrawl>>
    /\ UNCHANGED <<call, unforced, rendered>>

FetchErrorBreaks ==
    /\ pc' = "finish" /\ exc' = None /\ stop' = "no_link"

\* http_get raised inside the try block: control passes to the except clause.
FetchError ==
    /\ pc' = "except" /\ exc' = "HTTPError" /\ stop' = stop

AdvanceBlind(prev_abs, db, vis) ==
    /\ this_url' = IF prev_abs = NoUrl \/ Len(fetchLog) > NumPosts THEN this_url ELSE prev_abs
    /\ exc' = None
    /\ IF prev_abs # NoUrl /\ Len(fetchLog) <= NumPosts
       THEN pc' = "walk" /\ stop' = "none"
       ELSE pc' = "finish" /\ stop' = "no_link"

AdvanceSkipsExistsCheck(prev_abs, db, vis) ==
    /\ this_url' = prev_abs
    /\ exc' = None
    /\ IF LoopGuard(prev_abs, vis)
       THEN pc' = "walk" /\ stop' = "none"
       ELSE /\ pc' = "finish"
            /\ stop' = IF prev_abs = NoUrl THEN "no_link" ELSE "cycle"

\* The end of an iteration that did not stop at the ceiling, and the loop test
\* after it: stop when prev_abs is already stored, else move to prev_abs and
\* leave the loop when it is None or was visited in this run.
Advance(prev_abs, db, vis) ==
    IF prev_abs # NoUrl /\ exists_post(db, prev_abs)
    THEN /\ pc' = "finish" /\ stop' = "known" /\ exc' = None
         /\ UNCHANGED this_url
    ELSE /\ this_url' = prev_abs
         /\ exc' = None
         /\ IF LoopGuard(prev_abs, vis)
            THEN pc' = "walk" /\ stop' = "none"
            ELSE /\ pc' = "finish"
                 /\ stop' = IF prev_abs = NoUrl THEN "no_link" ELSE "cycle"

UpsertErrorKeepsGoing(prev_abs, db, vis) == Advance(prev_abs, db, vis)

\* upsert_post raised: rollback and re-raise, control passes to the except
\* clause of crawl_blog.
UpsertError(prev_abs, db, vis) ==
    /\ pc' = "except" /\ exc' = "DBError"
    /\ UNCHANGED <<this_url, stop>>

\* The iteration runs on to the sleep at its end: it did not break at an
\* already stored older post.
ReachesSleep(prev_abs, db) == ~(prev_abs # NoUrl /\ exists_post(db, prev_abs))

\* One iteration of the while loop, from the fetch of this_url to the loop
\* test that follows it.  dbfail names the database statement that raises.
WalkStep ==
    /\ pc = "walk"
    /\ \E dbfail \in DbFail({"upsert", "select"}) :
        LET resp == http_get(Responses(page[this_url].status))
            title == page[this_url].title
            published_at == page[this_url].published_at
            prev_abs == page[this_url].prev
            next_abs == page[this_url].next
            db2 == upsert_post(BlogPost, SourceName(cur), this_url, title, published_at,
                               prev_abs, next_abs, now)
            io == ioLog \o IoOfGet(resp)
        IN
        /\ events' = IF dbfail = "none" THEN events ELSE events + 1
        /\ visited' = visited \cup {this_url}
        /\ fetchLog' = Append(fetchLog, this_url)
        /\ IF ~resp.ok
           THEN /\ dbfail = "none"
                /\ FetchError
                /\ ioLog' = io
                /\ UNCHANGED <<BlogPost, upserted, seen, this_url>>
           ELSE IF dbfail = "upsert"
           THEN /\ UpsertError(prev_abs, BlogPost, visited \cup {this_url})
                /\ ioLog' = io
                /\ UNCHANGED <<BlogPost, upserted, seen>>
           ELSE /\ BlogPost' = db2
                /\ upserted' = upserted \cup {r \in db2 : r.url = this_url}
                /\ seen' = seen + 1
                /\ IF CeilingReached(seen + 1, args.max_posts_per_blog)
                   THEN /\ dbfail = "none"
                        /\ pc' = "finish" /\ stop' = "ceiling" /\ exc' = None
                        /\ ioLog' = io
                        /\ UNCHANGED this_url
                   ELSE IF prev_abs # NoUrl /\ dbfail = "select"
                   THEN /\ pc' = "except" /\ exc' = "DBError"
                        /\ ioLog' = io
                        /\ UNCHANGED <<this_url, stop>>
                   ELSE /\ dbfail = "none"
                        /\ Advance(prev_abs, db2, visited \cup {this_url})
                        /\ ioLog' = IF ReachesSleep(prev_abs, db2) /\ args.sleep > 0
                                     THEN Append(io, "sleep") ELSE io
    /\ UNCHANGED <<now, siteVars, Source, runs, args, rows, idx, cur, start_url, result,
                   preDB, preSrc, attempted, lastCrawl>>
    /\ UNCHANGED <<call, unforced, rendered>>

\* One iteration of the while loop that a KeyboardInterrupt cuts short after
\* the page was fetched: before the upsert is committed, or after the commit.
\* KeyboardInterrupt is no Exception, so neither except clause of crawl_blog
\* handles it, and what was not committed is dropped with the connection.
WalkInterrupted ==
    /\ pc = "walk"
    /\ events < MaxEvents
    /\ http_get(Responses(page[this_url].status)).ok
    /\ \E at \in {"before_commit", "after_commit"} :
        LET db2 == upsert_post(BlogPost, SourceName(cur), this_url, page[this_url].title,
                               page[this_url].published_at, page[this_url].prev,
                               page[this_url].next, now)
        IN /\ BlogPost' = IF at = "after_commit" THEN db2 ELSE BlogPost
           /\ upserted' = IF at = "after_commit"
                          THEN upserted \cup {r \in db2 : r.url = this_url} ELSE upserted
    /\ events' = events + 1
    /\ visited' = visited \cup {this_url}
    /\ fetchLog' = Append(fetchLog, this_url)
    /\ ioLog' = ioLog \o IoOfGet(http_get(Responses(page[this_url].status)))
    /\ pc' = "interrupted" /\ exc' = "KeyboardInterrupt"
    /\ UNCHANGED <<now, siteVars, Source, runs, args, rows, idx, cur, start_url, this_url,
                   seen, stop, result, preDB, preSrc, attempted, lastCrawl>>
    /\ UNCHANGED <<call, unforced, rendered>>

\* main's finally clause when the KeyboardInterrupt passes through it: close
\* the connection; the process ends without attempting the remaining rows.
RunAbort ==
    /\ pc = "interrupted"
    /\ pc' = "idle"
    /\ cur' = NoSource
    /\ start_url' = NoUrl /\ this_url' = NoUrl /\ visited' = {} /\ seen' = 0
    /\ stop' = "none" /\ exc' = None
    /\ fetchLog' = << >> /\ upserted' = {} /\ preDB' = {} /\ preSrc' = Source
    /\ ioLog' = << >>
    /\ result' = [new_count |-> 0, err |-> None]
    /\ args' = NoArgs /\ rows' = << >> /\ idx' = 1 /\ attempted' = << >>
    /\ lastCrawl' = NoCrawl
    /\ UNCHANGED <<now, siteVars, events, BlogPost, Source, runs>>
    /\ UNCHANGED <<call, unforced, rendered>>

\* crawl_blog returns to main's for loop.
Return(new_count, err, marked, src) ==
    /\ pc' = "main_loop"
    /\ idx' = idx + 1
    /\ exc' = None
    /\ result' = [new_count |-> new_count, err |-> err]
    /\ attempted' = Append(attempted, [sid |-> cur, err |-> err, marked |-> marked,
                                       start |-> start_url])
    /\ unforced' = IF ~args.force /\ args.only_host = None
                   THEN [unforced EXCEPT ![cur] = Append(@, marked)] ELSE unforced
    /\ LET repeat == /\ lastCrawl.sid = cur
                      /\ lastCrawl.ceiling = args.max_posts_per_blog
                      /\ lastCrawl.start = start_url
       IN lastCrawl' = [sid |-> cur,
                        start |-> start_url,
                        ceiling |-> args.max_posts_per_blog,
                        ok |-> err = None, posts |-> Posts(BlogPost),
                        new |-> Cardinality(StoredUrls(BlogPost) \ StoredUrls(preDB)),
                        summary |-> Summary(src, cur), repeat |-> repeat,
                        prevOk |-> repeat /\ lastCrawl.ok,
                        prevPosts |-> IF repeat THEN lastCrawl.posts ELSE {},
                        prevSummary |-> IF repeat THEN lastCrawl.summary ELSE NoSummary]

\* After the walk: refresh the summary, mark the source checked and successful.
CrawlFinish ==
    /\ pc = "finish"
    /\ LET host == host_from_url(<<SourceHost(cur)>>)
           src1 == refresh_source_summary(Source, BlogPost, cur, host)
           src2 == mark_source_checked(src1, cur, TRUE, 0, now)
       IN \E dbfail \in DbFail({"refresh", "mark"}) :
            \/ /\ dbfail = "none"
               /\ Source' = src2
               /\ Return(seen, None, TRUE, src2)
               /\ UNCHANGED events
            \/ /\ dbfail = "refresh"
               /\ pc' = "except" /\ exc' = "DBError"
               /\ events' = events + 1
               /\ UNCHANGED <<Source, idx, result, attempted, lastCrawl, unforced>>
            \/ /\ dbfail = "mark"
               /\ Source' = src1
               /\ pc' = "except" /\ exc' = "DBError"
               /\ events' = events + 1
               /\ UNCHANGED <<idx, result, attempted, lastCrawl, unforced>>
    /\ UNCHANGED <<now, siteVars, BlogPost, runs, args, rows, cur, walkVars, histVars>>
    /\ UNCHANGED <<call, rendered>>

CrawlExceptRaises ==
    /\ pc = "except"
    /\ pc' = "idle"
    /\ UNCHANGED <<now, siteVars, events, BlogPost, Source, runs, args, rows, idx, cur,
                   walkVars, exc, result, histVars, attempted, lastCrawl>>
    /\ UNCHANGED <<call, unforced, rendered>>

\* The except clause: mark the source checked and unsuccessful; if that
\* raises too, roll back.
CrawlExcept ==
    /\ pc = "except"
    /\ \E dbfail \in DbFailAfter(exc, {"mark"}) :
          LET src1 == IF dbfail = "none"
                      THEN mark_source_checked(Source, cur, FALSE, 1, now)
                      ELSE Source
          IN /\ Source' = src1
             /\ UNCHANGED events
             /\ Return(0, exc, dbfail = "none", src1)
    /\ UNCHANGED <<now, siteVars, BlogPost, runs, args, rows, cur, walkVars, histVars>>
    /\ UNCHANGED <<call, rendered>>

Next ==
    \/ Tick
    \/ SiteEdit
    \/ RunStart
    \/ CrawlStart
    \/ WalkStep
    \/ CrawlFinish
    \/ CrawlExcept
    \/ RunEnd

Spec == Init /\ [][Next]_vars

\* The process keeps running: main and crawl_blog take their next step.
FairSpec ==
    /\ Spec
    /\ WF_vars(CrawlStart) /\ WF_vars(WalkStep) /\ WF_vars(CrawlFinish)
    /\ WF_vars(CrawlExcept) /\ WF_vars(RunEnd)

\* --------------------------------------------- render_assets_for_updates

SUPPORTED_KINDS == {"Blog", "YouTube"}
Epoch == 0                 \* '1970-01-01', no later than any time of the clock
YouTubeVideo == {}         \* table YouTubeVideo: the crawler of blogs writes no video

\* The WHERE clause of render_assets_for_updates.list_sources.
RenderListed(sid, only_host, kind) ==
    /\ SourceEnabled(sid)
    /\ IF kind # None THEN SourceKind(sid) = kind ELSE SourceKind(sid) \in SUPPORTED_KINDS
    /\ only_host # None => SourceHost(sid) = Lower(only_host)

\* COALESCE(last_success, '1970-01-01')
Coalesce(t) == IF t = NULL THEN Epoch ELSE t

\* has_new_items_since: is there an item of the source with updated_at >= since.
has_new_items_since(db, kind, host, sid, since) ==
    IF kind = "Blog" THEN \E r \in PostsOfHost(db, host) : r.updated_at >= since
    ELSE IF kind = "YouTube" THEN \E v \in YouTubeVideo : v.source_id = sid /\ v.updated_at >= since
    ELSE FALSE

\* One run of render_assets_for_updates.main up to the list to_render, between
\* two runs of the crawler.  Which sources lack an asset file is up to the
\* file system; it counts with --catch-up-missing only.
Render ==
    /\ pc = "idle"
    /\ runs >= 1
    /\ ~rendered.done
    /\ \E only_host \in OnlyHosts, kind \in {None, "Blog"}, catch_up \in BOOLEAN :
        LET rws == {sid \in SourceIds : RenderListed(sid, only_host, kind)}
            new == {sid \in rws :
                       has_new_items_since(BlogPost, SourceKind(sid), SourceHost(sid), sid,
                                           Coalesce(Source[sid].last_success))}
        IN \E missing \in SUBSET rws :
              /\ ~catch_up => missing = {}
              /\ rendered' = [done |-> TRUE, catch_up_missing |-> catch_up, rows |-> rws,
                              to_render |-> new \cup missing]
    /\ UNCHANGED <<now, siteVars, events, BlogPost, Source, runs, pc, args, rows, idx, cur,
                   walkVars, exc, result, histVars, attempted, lastCrawl, call, unforced>>

\* The crawler with every command line and with the operator's Ctrl-C, and
\* the renderer run between its runs.
FullNext ==
    \/ Tick
    \/ SiteEdit
    \/ RunStartAny
    \/ CrawlStart
    \/ WalkStep
    \/ WalkInterrupted
    \/ CrawlFinish
    \/ CrawlExcept
    \/ RunEnd
    \/ RunAbort
    \/ Render

FullSpec == Init /\ [][FullNext]_vars

\* ------------------------------------------------- helper functions alone

\* What session.get may answer, attempt by attempt.
ResponseValues == {200, 404, 429, 501, 503, NetErr}
ResponseSeqs == [1..MaxResponses -> ResponseValues]

Calling(fn, arg) == [fn |-> fn, arg |-> arg, ret |-> << >>, done |-> FALSE]

HttpGetCalls == {Calling("http_get", r) : r \in ResponseSeqs}

\* http_get(session, url) while the server answers call.arg.
CallHttpGet ==
    /\ call.fn = "http_get" /\ ~call.done
    /\ call' = [call EXCEPT !.ret = http_get(call.arg), !.done = TRUE]
    /\ UNCHANGED <<now, siteVars, events, BlogPost, Source, runs, pc, args, rows, idx, cur,
                   walkVars, exc, result, histVars, attempted, lastCrawl, unforced, rendered>>

\* What a homepage, a feed or the JSON API of a blog may be: how it answers
\* and the post it names first, if any.
Endpoints(link) == [status : Statuses, link : {NoUrl, link}]

\* latest_post_from_home(session, home_url) on the first blog.
CallLatestPost ==
    /\ call.fn = "latest_post_from_home" /\ ~call.done
    /\ call' = [call EXCEPT !.ret = latest_post_from_home(call.arg), !.done = TRUE]
    /\ UNCHANGED <<now, siteVars, events, BlogPost, Source, runs, pc, args, rows, idx, cur,
                   walkVars, exc, result, histVars, attempted, lastCrawl, unforced, rendered>>

\* Post pages by what dates they carry: the content of the meta tags
\* article:published_time, pubdate and datePublished ("" when the tag is
\* missing), the <time> elements, and the path of the page's URL.
Documents ==
    [og : {"", "soon", "2021-01-01T09:00:00"},
     pubdate : {"", "2020-02-02"},
     schema : {"", "2019-09-09T12:00:00Z"},
     times : {<< >>,
              <<[datetime |-> "", text |-> "3 May 2022"]>>,
              <<[datetime |-> "soon", text |-> ""]>>,
              <<[datetime |-> "", text |-> "2022-05-03"]>>,
              <<[datetime |-> "2022-05-03", text |-> "3 May 2022"]>>},
     path : {"/about/", "/2022/05/03/a-post/"}]

\* extract_published_at(soup) on one page.
CallExtractPublishedAt ==
    /\ call.fn = "extract_published_at" /\ ~call.done
    /\ call' = [call EXCEPT !.ret = extract_published_at(call.arg), !.done = TRUE]
    /\ UNCHANGED <<now, siteVars, events, BlogPost, Source, runs, pc, args, rows, idx, cur,
                   walkVars, exc, result, histVars, attempted, lastCrawl, unforced, rendered>>

UnitInit ==
    /\ InitCrawler
    /\ \/ InitSiteWith(NoUrl) /\ call \in HttpGetCalls
       \/ InitSiteWith(NoUrl) /\ call \in {Calling("extract_published_at", d) : d \in Documents}
       \/ /\ call = Calling("latest_post_from_home", HostA)
          /\ page = InitPage(NoUrl)
          /\ \E x \in Endpoints(<<HostA, 1>>) :
                home = [h \in Hosts |-> IF h = HostA THEN x ELSE [status |-> 200, link |-> <<h, 1>>]]
          /\ \E x \in Endpoints(<<HostA, 2>>) :
                feed = [h \in Hosts |-> IF h = HostA THEN x ELSE [status |-> 404, link |-> NoUrl]]
          /\ \E x \in Endpoints(<<HostA, 3>>) :
                api = [h \in Hosts |-> IF h = HostA THEN x ELSE [status |-> 404, link |-> NoUrl]]

UnitNext ==
    \/ CallHttpGet
    \/ CallLatestPost
    \/ CallExtractPublishedAt

UnitSpec == UnitInit /\ [][UnitNext]_vars

\* ------------------------------------------------------------------ claims

Range(f) == {f[i] : i \in DOMAIN f}
Last(f) == f[Len(f)]

\* crawl_blog has returned to main and main has not moved on yet.
CrawlDone == pc = "main_loop" /\ cur # NoSource
Succeeded == CrawlDone /\ result.err = None
Ceiling == args.max_posts_per_blog
PreStored == StoredUrls(preDB)

\* The URLs reached from u along "previous" links, u included.
RECURSIVE ReachFrom(_, _)
ReachFrom(u, acc) ==
    IF u = NoUrl \/ u \in acc THEN acc ELSE ReachFrom(page[u].prev, acc \cup {u})
ChainFrom(u) == ReachFrom(u, {})

\* The links from u on form a chain: they end, and never lead back.
RECURSIVE EndsFrom(_, _)
EndsFrom(u, acc) ==
    IF u = NoUrl THEN TRUE ELSE IF u \in acc THEN FALSE
    ELSE EndsFrom(page[u].prev, acc \cup {u})
IsChainFrom(u) == EndsFrom(u, {})

\* The row this crawl writes for page u.
RowsOfPage(db, u) ==
    {r \in db : /\ r.url = u
                /\ r.title = page[u].title
                /\ r.published_at = page[u].published_at
                /\ r.previous_url = page[u].prev
                /\ r.next_url = page[u].next}

\* C1 as stated: on a chain, a walk without ceiling that ends without error
\* has fetched exactly the posts that were not stored before it.
C1_FetchesExactlyUnstored ==
    (Succeeded /\ Ceiling = 0 /\ IsChainFrom(start_url)) =>
        Range(fetchLog) = ChainFrom(start_url) \ PreStored

\* C1 amended: on a chain, a walk without ceiling that ends without error
\* fetches and upserts the start post, stored or not, then each next older post
\* that was not stored before the walk, and stops at the first older post that
\* was stored, without fetching it; nothing else is written.
C1_Convergence ==
    (Succeeded /\ Ceiling = 0 /\ IsChainFrom(start_url)) =>
        /\ fetchLog # << >>
        /\ fetchLog[1] = start_url
        /\ \A i \in 1..(Len(fetchLog) - 1) :
              /\ fetchLog[i + 1] = page[fetchLog[i]].prev
              /\ fetchLog[i + 1] \notin PreStored
        /\ LET older == page[Last(fetchLog)].prev
           IN \/ older = NoUrl /\ stop = "no_link"
              \/ older \in PreStored /\ stop = "known" /\ older \notin Range(fetchLog)
        /\ StoredUrls(BlogPost) = PreStored \cup Range(fetchLog)
        /\ \A u \in Range(fetchLog) : RowsOfPage(BlogPost, u) # {}
        /\ \A r \in preDB : r.url \notin Range(fetchLog) => r \in BlogPost

C1_Witness ==
    /\ Succeeded /\ Ceiling = 0 /\ IsChainFrom(start_url)
    /\ start_url \in PreStored
    /\ stop = "known"
    /\ Len(fetchLog) = 1

NoRefetch == \A i, j \in DOMAIN fetchLog : i # j => fetchLog[i] # fetchLog[j]

\* C2: whatever the older-links are, cycles and self-links included, a walk
\* with no ceiling fetches no URL twice and comes to an end.
C2_CycleSafety ==
    /\ [](Ceiling = 0 => NoRefetch)
    /\ (pc = "walk" /\ Ceiling = 0) ~> (pc # "walk")

C2_Witness ==
    /\ Succeeded /\ Ceiling = 0
    /\ Len(fetchLog) >= 2
    /\ page[Last(fetchLog)].prev \in Range(fetchLog)

\* The first n URLs from u along "previous" links.
RECURSIVE PathFrom(_, _)
PathFrom(u, n) ==
    IF n = 0 \/ u = NoUrl THEN << >> ELSE <<u>> \o PathFrom(page[u].prev, n - 1)

\* More than k distinct posts follow from u and none of the first k + 1 is in db.
LongerThan(u, k, db) ==
    LET path == PathFrom(u, k + 1)
    IN /\ Len(path) = k + 1
       /\ Cardinality(Range(path)) = k + 1
       /\ Range(path) \cap StoredUrls(db) = {}

\* C3: with a ceiling K >= 1 and more than K posts ahead, none of them stored,
\* a walk never fetches more than K posts, and one that meets no error fetches
\* and upserts exactly K, stops there, and the source is marked successful.
C3_Ceiling ==
    (CrawlDone /\ Ceiling >= 1 /\ start_url # NoUrl /\ LongerThan(start_url, Ceiling, preDB)) =>
        /\ Len(fetchLog) <= Ceiling
        /\ result.err = None =>
              /\ fetchLog = PathFrom(start_url, Ceiling)
              /\ StoredUrls(upserted) = Range(fetchLog)
              /\ Cardinality(upserted) = Ceiling
              /\ upserted \subseteq BlogPost
              /\ stop = "ceiling"
              /\ result.new_count = Ceiling
              /\ Source[cur].last_success = now
              /\ Source[cur].status_code = 0

C3_Witness ==
    /\ Succeeded /\ Ceiling = 2
    /\ LongerThan(start_url, Ceiling, preDB)
    /\ Len(fetchLog) = 2

SameUrl(db, db2) == {<<r, q>> \in db \X db2 : r.url = q.url}

\* C5: a crawl never replaces a stored non-null title or published_at by null.
C5_KeepsNonNull ==
    CrawlDone =>
        \A rq \in SameUrl(preDB, BlogPost) :
            /\ rq[1].title # None => rq[2].title # None
            /\ rq[1].published_at # NULL => rq[2].published_at # NULL

C5_Witness ==
    /\ Succeeded
    /\ \E rq \in SameUrl(preDB, upserted) :
          \/ rq[1].title # None /\ page[rq[1].url].title = None
          \/ rq[1].published_at # NULL /\ page[rq[1].url].published_at = NULL

UniqueUrl(db) == \A r, q \in db : r.url = q.url => r = q

\* C6: storage never holds two posts with one URL, and the upsert of a stored
\* URL leaves in its place the one row it wrote, with the owning source name
\* the row had.
C6_OnePostPerUrl ==
    /\ UniqueUrl(BlogPost)
    /\ pc # "idle" =>
          /\ upserted \subseteq BlogPost
          /\ \A rq \in SameUrl(preDB, upserted) : rq[2].blog_name = rq[1].blog_name

C6_Witness ==
    /\ Succeeded
    /\ \E rq \in SameUrl(preDB, upserted) : rq[1] # rq[2] /\ rq[1] \notin BlogPost

\* What the last crawl attempt recorded about itself.
Marked == Last(attempted).marked

\* C7 as stated: after every crawl attempt last_checked is the time of the
\* attempt, and last_success is that time if the walk ended without error and
\* is unchanged otherwise.
C7_CheckedAlwaysAdvances ==
    CrawlDone =>
        /\ Source[cur].last_checked = now
        /\ Source[cur].last_success =
              IF result.err = None THEN now ELSE preSrc[cur].last_success

\* C7 amended: the same, for every attempt whose status was recorded; an
\* attempt that ended in an error and whose status could not be recorded
\* leaves both timestamps as they were.
C7_Timestamps ==
    CrawlDone =>
        IF Marked
        THEN /\ Source[cur].last_checked = now
             /\ Source[cur].last_success =
                   IF result.err = None THEN now ELSE preSrc[cur].last_success
        ELSE /\ result.err # None
             /\ Source[cur].last_checked = preSrc[cur].last_checked
             /\ Source[cur].last_success = preSrc[cur].last_success

C7_Witness ==
    /\ CrawlDone /\ result.err # None /\ Marked
    /\ Source[cur].last_checked = now
    /\ Source[cur].last_success # now

\* C8: after every crawl attempt the source's summary is the aggregate over
\* the posts stored for its host.
C8_SummaryRecomputed ==
    CrawlDone =>
        Summary(Source, cur) = Aggregate(BlogPost, host_from_url(<<SourceHost(cur)>>))

C8_Witness ==
    /\ CrawlDone /\ result.err # None
    /\ upserted # {}
    /\ upserted \subseteq BlogPost
    /\ Summary(Source, cur) = Summary(preSrc, cur)

AttemptedSids == [i \in DOMAIN attempted |-> attempted[i].sid]

\* C9: main attempts the sources list_sources returned one after the other
\* in their order, whatever the attempts before returned; it ends only after
\* the last of them, and it does end.
C9_EverySourceAttempted ==
    /\ [](pc # "idle" =>
            /\ idx \in 1..(Len(rows) + 1)
            /\ AttemptedSids = SubSeq(rows, 1, idx - 1)
            /\ pc \in {"walk", "finish", "except"} => cur = rows[idx])
    /\ [][(pc # "idle" /\ pc' = "idle") => AttemptedSids = rows]_vars
    /\ (pc # "idle") ~> (pc = "idle")

C9_Witness ==
    /\ pc = "main_loop" /\ idx > Len(rows)
    /\ Len(rows) = 2
    /\ AttemptedSids = rows
    /\ attempted[1].err # None

\* The fetches of this walk that http_get raised on.
FailedFetches == {i \in DOMAIN fetchLog : ~http_get(Responses(page[fetchLog[i]].status)).ok}

FailedUpserts ==
    {i \in DOMAIN fetchLog : i \notin FailedFetches /\ fetchLog[i] \notin StoredUrls(upserted)}

HttpGetDone == call.fn = "http_get" /\ call.done
Retryable(st) == st = 429 \/ st \in 500..599
Increasing(f) == \A i, j \in DOMAIN f : i < j => f[i] < f[j]

\* C12: a fetch answered 429 or 5xx three times and then 200 returns the 200
\* response after exactly three sleeps of strictly increasing duration.
C12_RetryWithBackoff ==
    (HttpGetDone /\ (\A i \in 1..3 : Retryable(call.arg[i])) /\ call.arg[4] = 200) =>
        /\ call.ret.ok
        /\ call.ret.status = 200
        /\ Len(call.ret.sleeps) = 3
        /\ Increasing(call.ret.sleeps)

C12_Witness ==
    /\ HttpGetDone
    /\ \A i \in 1..3 : call.arg[i] = 429
    /\ call.arg[4] = 200
    /\ ~call.ret.ok
    /\ call.ret.sleeps = <<BACKOFF_SLEEP, BACKOFF_SLEEP, BACKOFF_SLEEP>>

\* C13: a fetch answered a 4xx status other than 429 fails at once: one
\* request, no sleep, no retry.
C13_ClientErrorFailsAtOnce ==
    (HttpGetDone /\ call.arg[1] \in (400..499) \ {429}) =>
        call.ret = [ok |-> FALSE, status |-> call.arg[1], attempts |-> 1, sleeps |-> << >>]

C13_Witness ==
    /\ HttpGetDone
    /\ call.arg[1] = 404 /\ call.arg[2] = 200
    /\ ~call.ret.ok /\ call.ret.attempts = 1

\* C14: a fetch whose every attempt is answered 429 or 5xx makes at most
\* MAX_RETRIES attempts and then fails with the last status it saw.
C14_RetriesAreBounded ==
    (HttpGetDone /\ \A i \in 1..MaxResponses : Retryable(call.arg[i])) =>
        /\ ~call.ret.ok
        /\ call.ret.attempts \in 1..MAX_RETRIES
        /\ call.ret.status = call.arg[call.ret.attempts]
        /\ Len(call.ret.sleeps) <= MAX_RETRIES

C14_Witness ==
    /\ HttpGetDone
    /\ \A i \in 1..MaxResponses : Retryable(call.arg[i])
    /\ call.ret.attempts = MAX_RETRIES
    /\ call.arg[1] # call.arg[MAX_RETRIES]
    /\ call.ret.status = call.arg[MAX_RETRIES]

\* C15: a fetch whose first attempt meets a network error and whose second
\* attempt is answered 200 succeeds.
C15_NetworkErrorIsRetried ==
    (HttpGetDone /\ call.arg[1] = NetErr /\ call.arg[2] = 200) => call.ret.ok

C15_Witness ==
    /\ HttpGetDone
    /\ call.arg[1] = NetErr /\ call.arg[2] = 200
    /\ ~call.ret.ok /\ call.ret.attempts = 1 /\ call.ret.sleeps = << >>

LatestPostDone == call.fn = "latest_post_from_home" /\ call.done

\* What an endpoint yields to a strategy of its own: its link when it can be
\* fetched, nothing otherwise.
Yields(e) == IF http_get(Responses(e.status)).ok THEN e.link ELSE NoUrl

\* C16: the start is the homepage's link if the homepage yields one; else,
\* also when the homepage cannot be fetched, the feed's latest entry; else the
\* JSON API's latest post; and there is no start only when none of the three
\* yields a URL.
C16_StartResolution ==
    LatestPostDone =>
        LET h == call.arg IN
        call.ret.url = IF Yields(home[h]) # NoUrl THEN Yields(home[h])
                       ELSE IF Yields(feed[h]) # NoUrl THEN Yields(feed[h])
                       ELSE Yields(api[h])

C16_Witness ==
    /\ LatestPostDone
    /\ ~http_get(Responses(home[call.arg].status)).ok
    /\ Yields(feed[call.arg]) # NoUrl
    /\ call.ret.raised /\ call.ret.url = NoUrl

\* crawl_blog has returned without having had a start URL.
StartNotFound == CrawlDone /\ start_url = NoUrl

\* C17 as stated: a source without a start URL has no page fetched and no
\* post written, its last_checked is the time of the attempt and its
\* last_success is what it was.
C17_NoStartMarksChecked ==
    StartNotFound =>
        /\ fetchLog = << >> /\ upserted = {} /\ BlogPost = preDB
        /\ Source[cur].last_checked = now
        /\ Source[cur].last_success = preSrc[cur].last_success

\* C17 amended: a source without a start URL has no page fetched and no post
\* written, returns an error to main, which goes on, and keeps its
\* last_success; its last_checked is the time of the attempt when the status
\* was recorded and is what it was when recording it failed.
C17_NoStartSkipsWalk ==
    StartNotFound =>
        /\ fetchLog = << >> /\ upserted = {} /\ BlogPost = preDB
        /\ result.new_count = 0 /\ result.err \in {"RuntimeError", "HTTPError"}
        /\ pc = "main_loop" /\ idx = Len(attempted) + 1
        /\ Source[cur].last_success = preSrc[cur].last_success
        /\ Source[cur].last_checked = IF Marked THEN now ELSE preSrc[cur].last_checked

C17_Witness ==
    /\ StartNotFound /\ result.err = "RuntimeError"
    /\ Marked /\ Source[cur].last_checked = now
    /\ preDB # {}
    /\ idx <= Len(rows)

\* C18: a walk that ends because a post has no older link has asked the feed
\* for an older entry after fetching that post.
C18_FeedConsultedAtEnd ==
    (Succeeded /\ stop = "no_link") =>
        \E i \in DOMAIN fetchLog :
            /\ fetchLog[i] = FeedUrl(host_from_url(<<SourceHost(cur)>>))
            /\ \E j \in 1..(i - 1) : page[fetchLog[j]].prev = NoUrl

C18_Witness ==
    /\ Succeeded /\ stop = "no_link"
    /\ Len(fetchLog) >= 2
    /\ page[Last(fetchLog)].prev = NoUrl
    /\ Range(fetchLog) \subseteq URLs

\* The enabled blog sources a run with these options may crawl at all.
Candidates(a) ==
    {sid \in SourceIds : /\ SourceKind(sid) = "Blog" /\ SourceEnabled(sid)
                         /\ a.only_host # None => SourceHost(sid) = Lower(a.only_host)}
CheckedToday(sid) ==
    Source[sid].last_checked # NULL /\ DateOfTs(Source[sid].last_checked) = DateOfTs(now)
Gated(a) == ~a.force /\ a.only_host = None

\* C19 as stated: over the runs without --force and --only-host of one day,
\* no source gets more than one crawl attempt.
C19_OneAttemptPerDay == \A sid \in SourceIds : Len(unforced[sid]) <= 1

\* C19 amended: a run without --force and --only-host crawls the sources not
\* checked today, a run with one of them crawls every source it names; and
\* over the runs without them of one day, a source is not attempted again
\* after an attempt whose status was recorded, successful or not.
C19_CheckedTodayGating ==
    /\ [][(pc = "idle" /\ pc' = "main_loop") =>
            Range(rows') = IF Gated(args')
                           THEN {sid \in Candidates(args') : ~CheckedToday(sid)}
                           ELSE Candidates(args')]_vars
    /\ [](\A sid \in SourceIds :
            \A i \in 1..(Len(unforced[sid]) - 1) : ~unforced[sid][i])

C19_Witness ==
    /\ runs = 2 /\ pc = "main_loop"
    /\ Gated(args)
    /\ unforced[1] = <<TRUE>>
    /\ Source[1].last_success = NULL /\ CheckedToday(1)
    /\ \A i \in DOMAIN rows : rows[i] # 1

ExtractDone == call.fn = "extract_published_at" /\ call.done

\* The date in a /YYYY/MM/DD/ segment of a URL path, NULL without one.
PathDate(path) == IF path = "/2022/05/03/a-post/" THEN 20220503 ELSE NULL

\* C20: published_at is the first <time datetime> that parses; else the
\* first of the meta tags article:published_time, pubdate, datePublished that
\* parses; else the date in the path of the post's URL; else null.
C20_DateFallbackOrder ==
    ExtractDone =>
        LET doc == call.arg
            time == FirstParsed([i \in DOMAIN doc.times |-> doc.times[i].datetime])
            meta == FirstParsed(<<doc.og, doc.pubdate, doc.schema>>)
        IN call.ret = IF time # NULL THEN time
                      ELSE IF meta # NULL THEN meta
                      ELSE PathDate(doc.path)

C20_Witness ==
    /\ ExtractDone
    /\ call.arg.og = "" /\ call.arg.pubdate = "" /\ call.arg.schema = ""
    /\ call.arg.times = << >>
    /\ PathDate(call.arg.path) # NULL
    /\ call.ret = NULL

\* The canonical shape of a post URL: a blog's host and a dated path.
PostShaped(u) == u \in URLs

\* C21: in a walk, every URL fetched after the start was reached through an
\* older link of post shape, and no post is written with a previous or next
\* URL that is not of post shape: links of any other shape are discarded.
C21_OnlyPostShapedLinks ==
    pc # "idle" =>
        /\ \A i \in 2..Len(fetchLog) : PostShaped(fetchLog[i])
        /\ \A r \in upserted :
              /\ r.previous_url # NoUrl => PostShaped(r.previous_url)
              /\ r.next_url # NoUrl => PostShaped(r.next_url)

C21_Witness ==
    /\ Succeeded
    /\ Len(fetchLog) >= 2
    /\ Last(fetchLog) = NavUrl
    /\ \E r \in upserted : r.previous_url = NavUrl
    /\ \E r \in BlogPost : r.url = NavUrl /\ r.blog_name = SourceName(cur)

\* C22: in a crawl with a positive sleep setting, a sleep lies between any two
\* requests, whether for the homepage, the feed, the JSON API or a post page.
C22_SleepBetweenFetches ==
    (pc # "idle" /\ args.sleep > 0) =>
        \A i \in 1..(Len(ioLog) - 1) : ~(ioLog[i] = "fetch" /\ ioLog[i + 1] = "fetch")

C22_Witness ==
    /\ Succeeded /\ args.sleep > 0 /\ args.start_url = NoUrl
    /\ Len(fetchLog) >= 2
    /\ SubSeq(ioLog, 1, 4) = <<"fetch", "fetch", "sleep", "fetch">>

\* C23: when a walk is cancelled by an interrupt after a post page was
\* fetched, that post's upsert has been committed: every page the walk fetched
\* is in storage as this walk wrote it.
C23_WriteCompletesBeforeCancel ==
    pc = "interrupted" =>
        /\ StoredUrls(upserted) = Range(fetchLog)
        /\ upserted \subseteq BlogPost

C23_Witness ==
    /\ pc = "interrupted" /\ exc = "KeyboardInterrupt"
    /\ Len(fetchLog) >= 2
    /\ StoredUrls(upserted) = Range(fetchLog) \ {Last(fetchLog)}
    /\ Last(fetchLog) \notin StoredUrls(BlogPost)

\* The only post of the second blog.
OnlyPost == <<HostB, 1>>

\* C24: a blog whose homepage lists its one post, which has no older link,
\* crawled from the homepage into empty storage, leaves exactly one row, that
\* post's, and a summary of one post whose first and last date are the post's.
C24_SinglePostEndToEnd ==
    (/\ Succeeded /\ SourceHost(cur) = HostB /\ preDB = {}
     /\ args.start_url = NoUrl /\ home[HostB].link = OnlyPost
     /\ page[OnlyPost].prev = NoUrl) =>
        /\ Cardinality(BlogPost) = 1
        /\ RowsOfPage(BlogPost, OnlyPost) = BlogPost
        /\ \A r \in BlogPost : r.blog_name = SourceName(cur)
        /\ fetchLog = <<OnlyPost>>
        /\ result.new_count = 1
        /\ Summary(Source, cur) = [first_post_date |-> page[OnlyPost].published_at,
                                   last_post_date |-> page[OnlyPost].published_at,
                                   total_posts |-> 1]

C24_Witness ==
    /\ Succeeded /\ SourceHost(cur) = HostB /\ preDB = {}
    /\ args.start_url = NoUrl /\ start_url = OnlyPost
    /\ StoredUrls(BlogPost) = {OnlyPost}
    /\ Source[cur].total_posts = 1
    /\ Source[cur].first_post_date = DateOf(OnlyPost)
    /\ Source[cur].last_success = now

\* The archive of the first blog is a chain: its oldest post has no older link.
StaticChain == page[<<HostA, NumPosts>>].prev = NoUrl
Stored == StoredUrls(BlogPost)

\* C25: over a chain of posts, between walks and however they ended, storage
\* is closed under "older": with a stored post every older post of the chain
\* is stored; so a walk that stops at an already stored older post leaves no
\* post older than that one missing.
C25_SuffixClosure ==
    (StaticChain /\ pc # "walk") =>
        /\ \A u \in Stored : ChainFrom(u) \subseteq Stored
        /\ (Succeeded /\ stop = "known") => ChainFrom(page[Last(fetchLog)].prev) \subseteq Stored

C25_Witness ==
    /\ StaticChain /\ Succeeded /\ stop = "known"
    /\ Ceiling = 0 /\ args.start_url = NoUrl
    /\ fetchLog = << <<HostA, 1>> >>
    /\ <<HostA, 2>> \in Stored
    /\ <<HostA, 3>> \notin Stored
    /\ http_get(Responses(page[<<HostA, 3>>].status)).ok

\* Every page of the first blog, and its homepage, can be fetched.
AllFetchable ==
    /\ \A u \in UrlsOf(HostA) : http_get(Responses(page[u].status)).ok
    /\ http_get(Responses(home[HostA].status)).ok /\ home[HostA].link = <<HostA, 1>>

\* A crawl of the first blog from its homepage, without ceiling and without
\* any error, that added no post to storage: with the site and storage as
\* they are now, every later such crawl does the same again.
CrawlAtRest ==
    /\ Succeeded /\ SourceHost(cur) = HostA
    /\ Ceiling = 0 /\ args.start_url = NoUrl
    /\ AllFetchable
    /\ Stored = PreStored

\* C26: over a static chain, repeated crawls whose fetches succeed store every
\* post in the end, whatever stopped earlier runs; so crawling cannot come to
\* rest, adding nothing any more, while a post of the chain is missing.
C26_EventualCompleteness ==
    (StaticChain /\ CrawlAtRest) => UrlsOf(HostA) \subseteq Stored

C26_Witness ==
    /\ StaticChain /\ CrawlAtRest
    /\ runs = 2
    /\ Stored \cap UrlsOf(HostA) = {<<HostA, 1>>, <<HostA, 2>>}
    /\ page[<<HostA, 2>>].prev = <<HostA, 3>>
    /\ Source[cur].last_success = now /\ Source[cur].total_posts = 2

\* C27: at the head of every iteration of the walk loop each URL visited in
\* this run has been upserted and is in storage; so an older link back to a
\* visited URL is stopped by the existence check (or by the ceiling before
\* it), and the test on the visited set never ends a walk.
C27_VisitedAreStored ==
    /\ pc = "walk" =>
          /\ visited = StoredUrls(upserted)
          /\ upserted \subseteq BlogPost
          /\ this_url \notin visited
    /\ stop # "cycle"
    /\ (Succeeded /\ fetchLog # << >> /\ page[Last(fetchLog)].prev \in visited) =>
          stop \in {"known", "ceiling"}

C27_Witness ==
    /\ Succeeded /\ stop = "known"
    /\ Len(fetchLog) = NumPosts
    /\ page[Last(fetchLog)].prev = fetchLog[1]
    /\ visited = Range(fetchLog)
    /\ PreStored = {}

\* crawl_blog is at work on, or has just returned from, a source of this run.
InCrawl == pc \in {"walk", "finish", "except"} \/ CrawlDone

\* C28: in a run with --only-host and --start-url, however the host is
\* spelled, every source the run crawls starts its walk at the given URL, and
\* no request is made to discover a start before the walk.
C28_OverrideWithOnlyHost ==
    (InCrawl /\ args.only_host # None /\ args.start_url # NoUrl) =>
        /\ start_url = args.start_url
        /\ fetchLog = << >> => ioLog = << >>
        /\ fetchLog # << >> => fetchLog[1] = args.start_url

C28_Witness ==
    /\ pc = "walk" /\ fetchLog = << >>
    /\ args.only_host = "A.blog.gov.uk" /\ args.start_url = <<HostA, 2>>
    /\ rows = <<1>> /\ cur = 1
    /\ start_url = home[HostA].link /\ start_url # args.start_url
    /\ ioLog = <<"fetch">>

\* A run with --start-url and without --only-host.
OverrideRun == pc # "idle" /\ args.start_url # NoUrl /\ args.only_host = None
StartedAtOverride == {i \in DOMAIN attempted : attempted[i].start = args.start_url}

\* C29: in a run with --start-url and without --only-host at most one source
\* starts its walk at that URL, and it is the source on whose host the URL
\* is: no other source writes a post or is recorded as successful.
C29_OverrideSingleSource ==
    OverrideRun =>
        /\ Cardinality(StartedAtOverride) <= 1
        /\ \A i \in StartedAtOverride :
              SourceHost(attempted[i].sid) = host_from_url(args.start_url)
        /\ CrawlDone /\ SourceHost(cur) # host_from_url(args.start_url) =>
              /\ upserted = {}
              /\ Source[cur].last_success = preSrc[cur].last_success

C29_Witness ==
    /\ OverrideRun /\ Succeeded
    /\ SourceHost(cur) = HostB /\ start_url = <<HostA, 2>>
    /\ Len(attempted) = 2 /\ StartedAtOverride = {1, 2}
    /\ \E r \in upserted : r.url = <<HostA, 3>> /\ r.blog_name = SourceName(cur)
    /\ Source[cur].last_success = now /\ Source[cur].total_posts = 0

\* The renderer ran after a crawl that ended without error, stored at least
\* one new post and stamped last_success, and it listed that crawl's source.
RenderedAfterCrawl ==
    /\ rendered.done /\ ~rendered.catch_up_missing
    /\ lastCrawl.sid \in rendered.rows
    /\ lastCrawl.ok /\ lastCrawl.new >= 1

\* C30: the run of the renderer without --catch-up-missing that follows a
\* successful crawl which stored a new post selects the crawl's source,
\* however much time passed between the upserts and the end of the walk.
C30_CrawlThenRender ==
    RenderedAfterCrawl => lastCrawl.sid \in rendered.to_render

C30_Witness ==
    /\ RenderedAfterCrawl
    /\ lastCrawl.sid \notin rendered.to_render
    /\ \A r \in PostsOfHost(BlogPost, SourceHost(lastCrawl.sid)) :
          r.updated_at < Source[lastCrawl.sid].last_success
    /\ Source[lastCrawl.sid].total_posts >= 1

====
